---- MODULE Spec2Model ----
(***************************************************************************)
(* The yaww GDI drawing surface of chalkboard (src/src/yaww/mod.rs):       *)
(* style state, pen/brush caches, the submission protocol that runs before *)
(* every primitive, the queue of pending native operations, and the        *)
(* detach / reattach / free life cycle of the residual state.              *)
(*                                                                         *)
(* The native backend is the environment.  Every backend call an operation *)
(* makes is appended to `log`, in call order; an operation is given the    *)
(* ordinal f of the call that fails (0: none fails), which covers every    *)
(* way a call sequence with `?` after each call can end.                   *)
(***************************************************************************)
EXTENDS Integers, Sequences, FiniteSets

\* ------------------------------------------------------------------ bounds
\* native geometry calls sent between two flushes
MaxIssued == 3
\* from_residual calls over the life of the residual state
MaxReattach == 1

\* ------------------------------------------------------------------ values
None == "None"
Red == "Red"
Blue == "Blue"
Colors == {Red, Blue}
Widths == {0, 2}

Ok == "Ok"
NotSupported == "NotSupported"
BackendErr == "Err"

\* Native handles are opaque; a handle is named by the creation call that
\* produced it: the kind, the key it was created for, and the ordinal of that
\* creation among the successful creations for the key.
NoHandle == [kind |-> "none", color |-> None, width |-> 0, gen |-> 0]
PenHandle(c, w, g) == [kind |-> "pen", color |-> c, width |-> w, gen |-> g]
BrushHandle(c, g) == [kind |-> "brush", color |-> c, width |-> 0, gen |-> g]
NullBrush == [kind |-> "stock", color |-> "NullBrush", width |-> 0, gen |-> 1]

PenKeys == Colors \X Widths

Stroke == "Stroke"
Fill == "Fill"

DrawOps == {"draw_line", "draw_lines", "draw_rectangle", "draw_rectangles",
            "draw_arc", "draw_arcs", "draw_ellipse", "draw_ellipses"}
FillOps == {"fill_polygon", "fill_rectangle", "fill_rectangles",
            "fill_arc", "fill_arcs", "fill_ellipse", "fill_ellipses"}
BatchOps == {"draw_lines", "draw_rectangles", "draw_arcs", "draw_ellipses",
             "fill_rectangles", "fill_arcs", "fill_ellipses"}

\* the private geometry method a public operation forwards to
Shape(op) ==
    CASE op \in {"draw_line"} -> "line"
      [] op \in {"draw_lines"} -> "lines"
      [] op \in {"draw_rectangle", "fill_rectangle"} -> "rectangle"
      [] op \in {"draw_rectangles", "fill_rectangles"} -> "rectangles"
      [] op \in {"draw_arc", "fill_arc"} -> "arc"
      [] op \in {"draw_arcs", "fill_arcs"} -> "arcs"
      [] op \in {"draw_ellipse", "fill_ellipse"} -> "ellipse"
      [] op \in {"draw_ellipses", "fill_ellipses"} -> "ellipses"
      [] op \in {"fill_polygon"} -> "polygon"

\* const FEATURES
FEATURES == [gradients |-> FALSE, floats |-> FALSE]

\* ------------------------------------------------------------------ state
VARIABLES
    pen,          \* residual.pen: current stroke color or None
    brush,        \* residual.brush: current fill color or None
    clear_brush,  \* residual.clear_brush: cached null brush or NoHandle
    width,        \* residual.width
    task_queue,   \* residual.task_queue: pending tasks (opaque handles)
    pens,         \* residual.pens: PenKeys -> handle or NoHandle
    brushes,      \* residual.brushes: Colors -> handle or NoHandle
    phase,        \* "surface": residual attached to a dc; "residual"; "freed"
    issued,       \* backend: native geometry calls sent since the last flush
                  \* (a task is named by the ordinal of its call)
    penMade,      \* backend: successful create_pen calls per key
    brushMade,    \* backend: successful create_solid_brush calls per color
    stockGot,     \* backend: successful get_stock_object calls, this attachment
                  \* (from new / from_residual to into_residual)
    stockTotal,   \* backend: successful get_stock_object calls, ever
    madeHere,     \* whether a pen or brush was created in this attachment
    epoch,        \* from_residual calls so far
    last,         \* the last public call: [op, res, n, arg]
    scope,        \* what the caller's program uses: colors, widths, operations
    log,          \* the backend calls (and task drops) of the last public call
    geom          \* the last draw_arc / fill_arc call made with coordinates:
                  \* its arguments, the Arc it built, the dc.arc arguments

vars == <<pen, brush, clear_brush, width, task_queue, pens, brushes, phase,
          issued, penMade, brushMade, stockGot, stockTotal, madeHere, epoch,
          last, scope, log, geom>>

styleVars == <<pen, brush, width>>
cacheVars == <<pens, brushes>>
backendVars == <<issued, penMade, brushMade, stockGot, stockTotal, madeHere>>

\* ------------------------------------------------------------------ calls
\* The part of the state a public call works on, threaded through its steps:
\* the residual's caches and queue, the backend's counters, the call log and
\* whether the call is still running (ok) or has returned an error.
Ctx == [cb |-> clear_brush, pens |-> pens, brushes |-> brushes,
        q |-> task_queue, issued |-> issued, pm |-> penMade,
        bm |-> brushMade, sg |-> stockGot, st |-> stockTotal,
        mh |-> madeHere, log |-> <<>>, ok |-> TRUE]

\* one backend call: logged, and failing iff it is the f-th call of the
\* operation (the `?` after it then returns the error)
Call(R, name, h, t, f) ==
    LET bad == (Len(R.log) + 1 = f)
    IN  [R EXCEPT !.log = Append(@, [call |-> name, obj |-> h, task |-> t,
                                     ok |-> ~bad]),
                  !.ok = ~bad]

\* a task handle that goes out of scope without being waited on
DropTask(R, t) ==
    [R EXCEPT !.log = Append(@, [call |-> "drop", obj |-> NoHandle,
                                 task |-> t, ok |-> TRUE])]

RECURSIVE DropAll(_, _)
DropAll(R, ts) ==
    IF ts = <<>> THEN R ELSE DropAll(DropTask(R, Head(ts)), Tail(ts))

\* dc.select_object(thread, h)?.wait()?
SelectObject(R, h, f) == Call(R, "select_object", h, 0, f)

\* clear_brush without the cached handle: get_stock_object on every call
ClearBrushNoLookup(R, f) ==
    LET R1 == Call(R, "get_stock_object", NullBrush, 0, f)
    IN  IF R1.ok
        THEN [R1 EXCEPT !.cb = NullBrush, !.sg = @ + 1, !.st = @ + 1]
        ELSE R1

\* clear_brush(): the cached null brush, or get_stock_object on a miss
ClearBrush(R, f) ==
    IF R.cb # NoHandle
    THEN R
    ELSE LET R1 == Call(R, "get_stock_object", NullBrush, 0, f)
         IN  IF R1.ok
             THEN [R1 EXCEPT !.cb = NullBrush, !.sg = @ + 1, !.st = @ + 1]
             ELSE R1

\* get_pen_from_color without the cache lookup: create_pen on every call
GetPenFromColorNoLookup(R, color, w, f) ==
    LET g  == R.pm[<<color, w>>] + 1
        R1 == Call(R, "create_pen", PenHandle(color, w, g), 0, f)
    IN  IF R1.ok
        THEN [R1 EXCEPT !.pens[<<color, w>>] = PenHandle(color, w, g),
                        !.pm[<<color, w>>] = g, !.mh = TRUE]
        ELSE R1

\* a get_pen_from_color whose cache holds one pen: a new pen replaces the rest
GetPenFromColorEvicts(R, color, w, f) ==
    IF R.pens[<<color, w>>] # NoHandle
    THEN R
    ELSE LET g  == R.pm[<<color, w>>] + 1
             R1 == Call(R, "create_pen", PenHandle(color, w, g), 0, f)
         IN  IF R1.ok
             THEN [R1 EXCEPT !.pens = [k \in PenKeys |->
                                         IF k = <<color, w>>
                                         THEN PenHandle(color, w, g)
                                         ELSE NoHandle],
                             !.pm[<<color, w>>] = g, !.mh = TRUE]
             ELSE R1

\* get_pen_from_color(color): the cached pen for (color, width), or create_pen
\* and insert on a miss; the pen it returns is then R.pens[<<color, w>>]
GetPenFromColor(R, color, w, f) ==
    IF R.pens[<<color, w>>] # NoHandle
    THEN R
    ELSE LET g  == R.pm[<<color, w>>] + 1
             R1 == Call(R, "create_pen", PenHandle(color, w, g), 0, f)
         IN  IF R1.ok
             THEN [R1 EXCEPT !.pens[<<color, w>>] = PenHandle(color, w, g),
                             !.pm[<<color, w>>] = g, !.mh = TRUE]
             ELSE R1

\* the brush lookup inside submit(Fill): cached brush, or create_solid_brush
GetBrush(R, color, f) ==
    IF R.brushes[color] # NoHandle
    THEN R
    ELSE LET g  == R.bm[color] + 1
             R1 == Call(R, "create_solid_brush", BrushHandle(color, g), 0, f)
         IN  IF R1.ok
             THEN [R1 EXCEPT !.brushes[color] = BrushHandle(color, g),
                             !.bm[color] = g, !.mh = TRUE]
             ELSE R1

\* a stroke submission that installs the pen before it clears the fill
SubmitStrokePenFirst(R, s, w, f) ==
    LET R1 == IF s # None THEN GetPenFromColor(R, s, w, f) ELSE R
        R2 == IF R1.ok /\ s # None
              THEN SelectObject(R1, R1.pens[<<s, w>>], f) ELSE R1
        R3 == IF R2.ok THEN ClearBrush(R2, f) ELSE R2
        R4 == IF R3.ok THEN SelectObject(R3, R3.cb, f) ELSE R3
    IN  R4

SubmitStroke(R, s, w, f) ==
    LET R1 == ClearBrush(R, f)
        R2 == IF R1.ok THEN SelectObject(R1, R1.cb, f) ELSE R1
        R3 == IF R2.ok /\ s # None THEN GetPenFromColor(R2, s, w, f) ELSE R2
        R4 == IF R3.ok /\ s # None
              THEN SelectObject(R3, R3.pens[<<s, w>>], f) ELSE R3
    IN  R4

\* a fill submission that keys the border pen by the fill color alone
SubmitFillPenWidthZero(R, fc, w, f) ==
    IF fc = None
    THEN R
    ELSE LET R1 == GetPenFromColor(R, fc, 0, f)
             R2 == IF R1.ok
                   THEN SelectObject(R1, R1.pens[<<fc, 0>>], f) ELSE R1
             R3 == IF R2.ok THEN GetBrush(R2, fc, f) ELSE R2
             R4 == IF R3.ok THEN SelectObject(R3, R3.brushes[fc], f) ELSE R3
         IN  R4

\* a fill submission that takes its new pen out of the cache when a later
\* step fails
SubmitFillRollsBack(R, fc, w, f) ==
    IF fc = None
    THEN R
    ELSE LET R1 == GetPenFromColor(R, fc, w, f)
             R2 == IF R1.ok
                   THEN SelectObject(R1, R1.pens[<<fc, w>>], f) ELSE R1
             R3 == IF R2.ok THEN GetBrush(R2, fc, f) ELSE R2
             R4 == IF R3.ok THEN SelectObject(R3, R3.brushes[fc], f) ELSE R3
         IN  IF R4.ok THEN R4 ELSE [R4 EXCEPT !.pens = R.pens]

SubmitFill(R, fc, w, f) ==
    IF fc = None
    THEN R   \* log::warn!("Tried to fill with empty brush?")
    ELSE LET R1 == GetPenFromColor(R, fc, w, f)
             R2 == IF R1.ok
                   THEN SelectObject(R1, R1.pens[<<fc, w>>], f) ELSE R1
             R3 == IF R2.ok THEN GetBrush(R2, fc, f) ELSE R2
             R4 == IF R3.ok THEN SelectObject(R3, R3.brushes[fc], f) ELSE R3
         IN  R4

\* submit(draw) with the style the residual holds: stroke color s, fill color
\* fc, line width w
Submit(R, draw, s, fc, w, f) ==
    IF draw = Stroke THEN SubmitStroke(R, s, w, f) ELSE SubmitFill(R, fc, w, f)
\* ------------------------------------------------- cooperative submission
\* get_pen_from_color_async(color): the cache lookup of get_pen_from_color,
\* with create_pen(..)?.await? on a miss
GetPenFromColorAsync(R, color, w, f) ==
    IF R.pens[<<color, w>>] # NoHandle
    THEN R
    ELSE LET g  == R.pm[<<color, w>>] + 1
             R1 == Call(R, "create_pen", PenHandle(color, w, g), 0, f)
         IN  IF R1.ok
             THEN [R1 EXCEPT !.pens[<<color, w>>] = PenHandle(color, w, g),
                             !.pm[<<color, w>>] = g, !.mh = TRUE]
             ELSE R1

\* `self.dc.select_object(self.thread, cf)?.await;`: the `?` returns an error
\* of the send; the awaited result is discarded.  atSend tells which of the
\* two a failure of this call is.
SelectAwaitUnchecked(R, h, f, atSend) ==
    LET R1 == Call(R, "select_object", h, 0, f)
    IN  IF R1.ok \/ atSend THEN R1 ELSE [R1 EXCEPT !.ok = TRUE]

\* submit_async, DrawType::Stroke: clear_brush.take() empties the cached
\* clear brush and selects it if there was one (there is no get_stock_object
\* on a miss); then the pen as in submit
SubmitStrokeAsync(R, s, w, f, atSend) ==
    LET R1 == IF R.cb # NoHandle
              THEN SelectAwaitUnchecked([R EXCEPT !.cb = NoHandle], R.cb, f,
                                        atSend)
              ELSE R
        R2 == IF R1.ok /\ s # None
              THEN GetPenFromColorAsync(R1, s, w, f) ELSE R1
        R3 == IF R2.ok /\ s # None
              THEN SelectObject(R2, R2.pens[<<s, w>>], f) ELSE R2
    IN  R3

\* submit_async, DrawType::Fill: as submit, then the brush the select
\* replaced (old) becomes the clear brush if none is cached
SubmitFillAsync(R, fc, w, f, old) ==
    IF fc = None
    THEN R
    ELSE LET R1 == GetPenFromColorAsync(R, fc, w, f)
             R2 == IF R1.ok
                   THEN SelectObject(R1, R1.pens[<<fc, w>>], f) ELSE R1
             R3 == IF R2.ok THEN GetBrush(R2, fc, f) ELSE R2
             R4 == IF R3.ok THEN SelectObject(R3, R3.brushes[fc], f) ELSE R3
         IN  IF R4.ok /\ R4.cb = NoHandle THEN [R4 EXCEPT !.cb = old]
             ELSE R4

SubmitAsync(R, draw, s, fc, w, f, atSend, old) ==
    IF draw = Stroke THEN SubmitStrokeAsync(R, s, w, f, atSend)
    ELSE SubmitFillAsync(R, fc, w, f, old)
\* --------------------------------------------------------------- geometry
\* one native geometry call sent to the dc (`self.dc.<call>(...)?`): on
\* success the backend hands back a task, an opaque Task<Result<()>> named
\* here by the ordinal of the call since the last flush
Send(R, name, f) ==
    LET R1 == Call(R, name, NoHandle, R.issued + 1, f)
    IN  IF R1.ok THEN [R1 EXCEPT !.issued = @ + 1] ELSE R1

\* a line() that queues the line_to task ahead of the move_to task
LineQueuesReversed(R, f) ==
    LET R1 == Send(R, "move_to", f)
        R2 == IF R1.ok THEN Send(R1, "line_to", f) ELSE R1
    IN  IF ~R1.ok THEN R1
        ELSE IF ~R2.ok THEN DropTask(R2, R1.issued)
        ELSE [R2 EXCEPT !.q = @ \o <<R2.issued, R1.issued>>]

\* line(): move_to and line_to are both sent before either task is queued
Line(R, f) ==
    LET R1 == Send(R, "move_to", f)
        R2 == IF R1.ok THEN Send(R1, "line_to", f) ELSE R1
    IN  IF ~R1.ok THEN R1
        ELSE IF ~R2.ok THEN DropTask(R2, R1.issued)
        ELSE [R2 EXCEPT !.q = @ \o <<R1.issued, R2.issued>>]

\* rectangle(), arc(), ellipse(), polygon(): one native call, pushed
Single(R, name, f) ==
    LET R1 == Send(R, name, f)
    IN  IF R1.ok THEN [R1 EXCEPT !.q = Append(@, R1.issued)]
        ELSE R1

\* ------------------------------------------------------- arc coordinates
\* Coordinates and radii are f32 values; the ones used here are multiples of
\* one half, written as the number of halves (3 is 1.5).  Angles are whole
\* quarter turns, written as the number of quarter turns (radians = q * pi/2),
\* where cos and sin are -1, 0 or 1; with the coordinates below the rounding
\* error of f32 cos and sin at these angles does not change any result.
ArcCenters == {-3, 4}
ArcRadii == {1, 4}
StartAngles == 0..3
SweepAngles == {1, 2}

Cos(q) == CASE q % 4 = 0 -> 1 [] q % 4 = 2 -> -1 [] OTHER -> 0
Sin(q) == CASE q % 4 = 1 -> 1 [] q % 4 = 3 -> -1 [] OTHER -> 0

\* `v as i32` of a number of halves: truncation toward zero
AsI32(v) == IF v >= 0 THEN v \div 2 ELSE -((-v) \div 2)
\* `v.ceil() as i32` of a number of halves
CeilAsI32(v) == -((-v) \div 2)

\* no arc call with coordinates has been made
NoArc == [op |-> "none"]

\* calc_posns(arc): [x1, y1, x2, y2, asx, asy, aex, aey]
CalcPosns(arc) ==
    LET cx == arc.center[1]
        cy == arc.center[2]
        rx == arc.radii[1]
        ry == arc.radii[2]
        calc_posn(degree) == <<CeilAsI32(cx + Cos(degree) * rx),
                               CeilAsI32(cy + Sin(degree) * ry)>>
        as == calc_posn(arc.start_angle)
        ae == calc_posn(arc.sweep_angle)
    IN  <<AsI32(cx - rx), AsI32(cy - ry), AsI32(cx + rx), AsI32(cy + ry),
          as[1], as[2], ae[1], ae[2]>>

\* the Arc that arc(xcenter, ycenter, xradius, yradius, start, sweep) builds
\* and hands to calc_posns
ArcOf(xcenter, ycenter, xradius, yradius, start_angle, sweep_angle) ==
    [center |-> <<xcenter, ycenter>>, radii |-> <<xradius, yradius>>,
     start_angle |-> start_angle, sweep_angle |-> sweep_angle]

\* the arguments a caller passes to draw_arc / fill_arc
ArcArgs == [xcenter : ArcCenters, ycenter : ArcCenters, xradius : ArcRadii,
            yradius : ArcRadii, start_angle : StartAngles,
            sweep_angle : SweepAngles]

\* draw_arc: self.arc(xcenter, ycenter, xradius, yradius, start, sweep)
DrawArcForwards(a) ==
    ArcOf(a.xcenter, a.ycenter, a.xradius, a.yradius, a.start_angle,
          a.sweep_angle)
\* fill_arc: self.arc(xcenter, ycenter, xradius, ycenter, start, sweep)
FillArcForwards(a) ==
    ArcOf(a.xcenter, a.ycenter, a.xradius, a.ycenter, a.start_angle,
          a.sweep_angle)

\* lines(): try_for_each over the segments, each queued as it is sent
RECURSIVE Lines(_, _, _)
Lines(R, n, f) ==
    IF n = 0 THEN R
    ELSE LET R1 == Line(R, f)
         IN  IF R1.ok THEN Lines(R1, n - 1, f) ELSE R1

\* rectangles(), arcs(), ellipses(): try_for_each, one native call each
RECURSIVE Batch(_, _, _, _)
Batch(R, name, n, f) ==
    IF n = 0 THEN R
    ELSE LET R1 == Single(R, name, f)
         IN  IF R1.ok THEN Batch(R1, name, n - 1, f) ELSE R1

\* the geometry method of a public operation, on n elements
Geometry(R, shape, n, f) ==
    CASE shape = "line" -> Line(R, f)
      [] shape = "lines" -> Lines(R, n, f)
      [] shape = "rectangle" -> Single(R, "rectangle", f)
      [] shape = "rectangles" -> Batch(R, "rectangle", n, f)
      [] shape = "arc" -> Single(R, "arc", f)
      [] shape = "arcs" -> Batch(R, "arc", n, f)
      [] shape = "ellipse" -> Single(R, "ellipse", f)
      [] shape = "ellipses" -> Batch(R, "ellipse", n, f)
      [] shape = "polygon" -> Single(R, "polygon", f)

\* native calls a geometry method sends when nothing fails
NativeCalls(shape, n) ==
    CASE shape = "line" -> 2
      [] shape = "lines" -> 2 * n
      [] shape \in {"rectangles", "arcs", "ellipses"} -> n
      [] OTHER -> 1

\* a draw_* / fill_* that sends its geometry whatever submit returned
DrawCallIgnoresSubmit(R, mode, shape, n, s, fc, w, f) ==
    LET R1 == Submit(R, mode, s, fc, w, f)
        R2 == Geometry([R1 EXCEPT !.ok = TRUE], shape, n, f)
    IN  [R2 EXCEPT !.ok = R1.ok /\ R2.ok]

\* a public draw_* / fill_* operation: submit(mode)?; then the geometry
DrawCall(R, mode, shape, n, s, fc, w, f) ==
    LET R1 == Submit(R, mode, s, fc, w, f)
    IN  IF R1.ok THEN Geometry(R1, shape, n, f) ELSE R1

\* ------------------------------------------------------------------ flush
\* task_queue.drain(..).try_for_each(|t| t.wait()?): waits from the front,
\* stops at the first failed wait; dropping the Drain removes the rest
\* a drain that takes the tasks from the back of the queue (pop)
RECURSIVE DrainWaitLifo(_, _, _)
DrainWaitLifo(R, ts, f) ==
    IF ts = <<>> THEN R
    ELSE LET R1 == Call(R, "wait", NoHandle, ts[Len(ts)], f)
         IN  IF R1.ok THEN DrainWaitLifo(R1, SubSeq(ts, 1, Len(ts) - 1), f)
             ELSE DropAll(R1, SubSeq(ts, 1, Len(ts) - 1))

\* a drain that waits on every task and reports the first failure at the end
RECURSIVE DrainWaitAll(_, _, _)
DrainWaitAll(R, ts, f) ==
    IF ts = <<>> THEN R
    ELSE LET R1 == Call(R, "wait", NoHandle, Head(ts), f)
         IN  DrainWaitAll([R1 EXCEPT !.ok = R.ok /\ R1.ok], Tail(ts), f)

RECURSIVE DrainWait(_, _, _)
DrainWait(R, ts, f) ==
    IF ts = <<>> THEN R
    ELSE LET R1 == Call(R, "wait", NoHandle, Head(ts), f)
         IN  IF R1.ok THEN DrainWait(R1, Tail(ts), f)
             ELSE DropAll(R1, Tail(ts))

\* a flush that leaves in the queue the tasks behind a failed wait
FlushCallKeepsUnwaited(R, f) ==
    LET R1 == DrainWait(R, R.q, f)
        w  == Len(SelectSeq(R1.log, LAMBDA e : e.call = "wait"))
    IN  [R1 EXCEPT !.q = SubSeq(R.q, w + 1, Len(R.q)),
                   !.issued = IF w = Len(R.q) THEN 0 ELSE @]

\* a flush that also forgets the cached clear brush
FlushCallForgetsClearBrush(R, f) ==
    [DrainWait(R, R.q, f) EXCEPT !.q = <<>>, !.issued = 0, !.cb = NoHandle]

FlushCall(R, f) == [DrainWait(R, R.q, f) EXCEPT !.q = <<>>, !.issued = 0]

\* ------------------------------------------------------------------- free
\* into_iter().try_for_each(|(_, h)| h.delete_gdi(thread)?) over a sequence
\* of handles: stops at the first failed delete
RECURSIVE DeleteEach(_, _, _)
DeleteEach(R, hs, f) ==
    IF hs = <<>> THEN R
    ELSE LET R1 == Call(R, "delete_gdi", Head(hs), 0, f)
         IN  IF R1.ok THEN DeleteEach(R1, Tail(hs), f) ELSE R1

\* a free that flushes the pending tasks before it deletes
FreeCallFlushesFirst(R, penOrder, brushOrder, f) ==
    LET R0 == DrainWait(R, R.q, f)
        R1 == IF R0.ok THEN DeleteEach(R0, penOrder, f) ELSE R0
        R2 == IF R1.ok THEN DeleteEach(R1, brushOrder, f) ELSE R1
    IN  [R2 EXCEPT !.q = <<>>, !.issued = 0]

\* free(): the pens, `?`, then the brushes, `?`; the fields left in self
\* (the task queue among them) are dropped when free returns
FreeCall(R, penOrder, brushOrder, f) ==
    LET R1 == DeleteEach(R, penOrder, f)
        R2 == IF R1.ok THEN DeleteEach(R1, brushOrder, f) ELSE R1
    IN  [DropAll(R2, R.q) EXCEPT !.q = <<>>, !.issued = 0]

\* the orders in which a HashMap's into_iter can yield the handles cached in m
Orders(m) ==
    LET hs == {m[k] : k \in DOMAIN m} \ {NoHandle}
    IN  {s \in [1..Cardinality(hs) -> hs] :
            \A i, j \in DOMAIN s : i # j => s[i] # s[j]}
\* ---------------------------------------------------------------- actions
\* FillRule: a solid color, or one of the gradient rules (the `_` arm)
FillRules(cs) == {[tag |-> "SolidColor", color |-> c] : c \in cs}
                 \cup {[tag |-> "Gradient", color |-> None]}

Result(R) == IF R.ok THEN Ok ELSE BackendErr

\* what a public call leaves behind: the residual and backend parts it worked
\* on, its result and its call log
Commit(R, op, n) ==
    /\ clear_brush' = R.cb
    /\ pens' = R.pens
    /\ brushes' = R.brushes
    /\ task_queue' = R.q
    /\ issued' = R.issued
    /\ penMade' = R.pm
    /\ brushMade' = R.bm
    /\ stockGot' = R.sg
    /\ stockTotal' = R.st
    /\ madeHere' = R.mh
    /\ last' = [op |-> op, res |-> Result(R), n |-> n, arg |-> ""]
    /\ log' = R.log

\* YawwGdiSurface::new
New ==
    /\ pen = None
    /\ brush = None
    /\ clear_brush = NoHandle
    /\ width = 0
    /\ task_queue = <<>>
    /\ pens = [k \in PenKeys |-> NoHandle]
    /\ brushes = [c \in Colors |-> NoHandle]
    /\ phase = "surface"
    /\ issued = 0
    /\ penMade = [k \in PenKeys |-> 0]
    /\ brushMade = [c \in Colors |-> 0]
    /\ stockGot = 0
    /\ stockTotal = 0
    /\ madeHere = FALSE
    /\ epoch = 0
    /\ last = [op |-> "new", res |-> Ok, n |-> 0, arg |-> ""]
    /\ log = <<>>
    /\ geom = NoArc

\* a caller drawing lines and rectangles in two colors at the default width
StyleScope == [colors |-> Colors, widths |-> {0},
               ops |-> {"draw_line", "draw_rectangle", "fill_rectangle"},
               cap |-> MaxIssued]
\* a caller drawing every kind of shape in one color at two widths
ShapeScope == [colors |-> {Red}, widths |-> {2},
               ops |-> DrawOps \cup FillOps, cap |-> MaxIssued - 1]

Init == New /\ scope = StyleScope
InitShapes == New /\ scope = ShapeScope

\* a set_stroke that resolves the pen for the new color at once
SetStrokeCreatesPen ==
    /\ phase = "surface"
    /\ \E c \in scope.colors :
        LET R == GetPenFromColor(Ctx, c, width, 0)
        IN  /\ pen' = c
            /\ pens' = R.pens
            /\ penMade' = R.pm
            /\ madeHere' = R.mh
            /\ log' = R.log
            /\ last' = [op |-> "set_stroke", res |-> Ok, n |-> 0, arg |-> ""]
    /\ UNCHANGED <<brush, width, clear_brush, task_queue, brushes, phase,
                   issued, brushMade, stockGot, stockTotal, epoch, scope, geom>>

SetStroke ==
    /\ phase = "surface"
    /\ \E c \in scope.colors :
        /\ pen' = c
        /\ last' = [op |-> "set_stroke", res |-> Ok, n |-> 0, arg |-> ""]
    /\ log' = <<>>
    /\ UNCHANGED <<brush, width, clear_brush, task_queue, cacheVars, phase,
                   backendVars, epoch, scope, geom>>

\* a set_fill that clears the fill color before it rejects a gradient
SetFillResetsOnGradient ==
    /\ phase = "surface"
    /\ \E fill \in FillRules(scope.colors) :
        IF fill.tag = "SolidColor"
        THEN /\ brush' = fill.color
             /\ last' = [op |-> "set_fill", res |-> Ok, n |-> 0, arg |-> fill.tag]
        ELSE /\ brush' = None
             /\ last' = [op |-> "set_fill", res |-> NotSupported, n |-> 0,
                       arg |-> fill.tag]
    /\ log' = <<>>
    /\ UNCHANGED <<pen, width, clear_brush, task_queue, cacheVars, phase,
                   backendVars, epoch, scope, geom>>

SetFill ==
    /\ phase = "surface"
    /\ \E fill \in FillRules(scope.colors) :
        IF fill.tag = "SolidColor"   \* the other arm is `_`: every gradient rule
        THEN /\ brush' = fill.color
             /\ last' = [op |-> "set_fill", res |-> Ok, n |-> 0, arg |-> fill.tag]
        ELSE /\ brush' = brush
             /\ last' = [op |-> "set_fill", res |-> NotSupported, n |-> 0,
                       arg |-> fill.tag]
    /\ log' = <<>>
    /\ UNCHANGED <<pen, width, clear_brush, task_queue, cacheVars, phase,
                   backendVars, epoch, scope, geom>>

SetLineWidth ==
    /\ phase = "surface"
    /\ \E w \in scope.widths :
        /\ width' = w
        /\ last' = [op |-> "set_line_width", res |-> Ok, n |-> 0, arg |-> ""]
    /\ log' = <<>>
    /\ UNCHANGED <<pen, brush, clear_brush, task_queue, cacheVars, phase,
                   backendVars, epoch, scope, geom>>

\* the element counts a caller may pass to op
Counts(op) == IF op \in BatchOps THEN 0..MaxIssued ELSE {1}

\* draw_line .. draw_ellipses
Draw ==
    /\ phase = "surface"
    /\ \E op \in DrawOps \cap scope.ops : \E n \in Counts(op) :
        /\ issued + NativeCalls(Shape(op), n) <= scope.cap
        /\ \E f \in 0..Len(DrawCall(Ctx, Stroke, Shape(op), n,
                                     pen, brush, width, 0).log) :
            Commit(DrawCall(Ctx, Stroke, Shape(op), n, pen, brush, width, f),
                   op, n)
    /\ UNCHANGED <<styleVars, phase, epoch, scope, geom>>

\* fill_polygon .. fill_ellipses
FillShape ==
    /\ phase = "surface"
    /\ \E op \in FillOps \cap scope.ops : \E n \in Counts(op) :
        /\ issued + NativeCalls(Shape(op), n) <= scope.cap
        /\ \E f \in 0..Len(DrawCall(Ctx, Fill, Shape(op), n,
                                     pen, brush, width, 0).log) :
            Commit(DrawCall(Ctx, Fill, Shape(op), n, pen, brush, width, f),
                   op, n)
    /\ UNCHANGED <<styleVars, phase, epoch, scope, geom>>

Flush ==
    /\ phase = "surface"
    /\ \E f \in 0..Len(task_queue) : Commit(FlushCall(Ctx, f), "flush", 0)
    /\ UNCHANGED <<styleVars, phase, epoch, scope, geom>>

\* an into_residual that also empties the pen and brush caches
IntoResidualDropsCaches ==
    /\ phase = "surface"
    /\ phase' = "residual"
    /\ pen' = None
    /\ brush' = None
    /\ clear_brush' = NoHandle
    /\ pens' = [k \in PenKeys |-> NoHandle]
    /\ brushes' = [c \in Colors |-> NoHandle]
    /\ stockGot' = 0
    /\ madeHere' = FALSE
    /\ last' = [op |-> "into_residual", res |-> Ok, n |-> 0, arg |-> ""]
    /\ log' = <<>>
    /\ UNCHANGED <<width, task_queue, issued, penMade, brushMade,
                   stockTotal, epoch, scope, geom>>

\* an into_residual that also discards the pending tasks and the line width
IntoResidualDropsQueue ==
    /\ phase = "surface"
    /\ phase' = "residual"
    /\ pen' = None
    /\ brush' = None
    /\ clear_brush' = NoHandle
    /\ width' = 0
    /\ task_queue' = <<>>
    /\ issued' = 0
    /\ stockGot' = 0
    /\ madeHere' = FALSE
    /\ last' = [op |-> "into_residual", res |-> Ok, n |-> 0, arg |-> ""]
    /\ log' = <<>>
    /\ UNCHANGED <<cacheVars, penMade, brushMade, stockTotal, epoch, scope,
                   geom>>

IntoResidual ==
    /\ phase = "surface"
    /\ phase' = "residual"
    /\ pen' = None
    /\ brush' = None
    /\ clear_brush' = NoHandle
    /\ stockGot' = 0
    /\ madeHere' = FALSE
    /\ last' = [op |-> "into_residual", res |-> Ok, n |-> 0, arg |-> ""]
    /\ log' = <<>>
    /\ UNCHANGED <<width, task_queue, cacheVars, issued, penMade, brushMade,
                   stockTotal, epoch, scope, geom>>

\* from_residual(thread, dc, residual): a surface on a fresh dc
FromResidual ==
    /\ phase = "residual"
    /\ epoch < MaxReattach
    /\ phase' = "surface"
    /\ epoch' = epoch + 1
    /\ last' = [op |-> "from_residual", res |-> Ok, n |-> 0, arg |-> ""]
    /\ log' = <<>>
    /\ UNCHANGED <<styleVars, clear_brush, task_queue, cacheVars,
                   backendVars, scope, geom>>

\* YawwGdiSurfaceResidual::free: consumes the residual
Free ==
    /\ phase = "residual"
    /\ \E po \in Orders(pens) : \E bo \in Orders(brushes) :
       \E f \in 0..(Len(po) + Len(bo)) :
        LET R == FreeCall(Ctx, po, bo, f)
        IN  Commit([R EXCEPT !.pens = [k \in PenKeys |-> NoHandle],
                             !.brushes = [c \in Colors |-> NoHandle]],
                   "free", 0)
    /\ phase' = "freed"
    /\ UNCHANGED <<styleVars, epoch, scope, geom>>

Next ==
    \/ SetStroke
    \/ SetFill
    \/ SetLineWidth
    \/ Draw
    \/ FillShape
    \/ Flush
    \/ IntoResidual
    \/ FromResidual
    \/ Free

\* the calls of the Surface trait alone: one surface that is never detached
NextSurface ==
    \/ SetStroke
    \/ SetFill
    \/ SetLineWidth
    \/ Draw
    \/ FillShape
    \/ Flush

\* the whole life cycle, lines and rectangles in two colors
Spec == Init /\ [][Next]_vars
\* one attachment, every operation of the Surface trait, two line widths
SpecShapes == InitShapes /\ [][NextSurface]_vars
\* ------------------------------------------ submit_async applied to a state
\* the brush a dc has selected before the surface selects its own
DcDefaultBrush == [kind |-> "stock", color |-> "DcDefault", width |-> 0,
                   gen |-> 1]

\* what select_object(brush) may hand back as the previously selected brush
OldBrushes == ({DcDefaultBrush, NullBrush}
               \cup {brushes[c] : c \in Colors}) \ {NoHandle}

\* a caller drawing lines and filling rectangles in one color
AsyncScope == [colors |-> {Red}, widths |-> {0},
               ops |-> {"draw_line", "fill_rectangle"},
               cap |-> MaxIssued - 1]

InitAsync == New /\ scope = AsyncScope

\* submit_async(draw) on the current style and caches; last.arg is the draw
\* mode and last.n the ordinal of the failing backend call
SubmitAsyncStep ==
    /\ phase = "surface"
    /\ stockTotal < MaxIssued   \* bounds the get_stock_object count
    /\ \E draw \in {Stroke, Fill} : \E atSend \in BOOLEAN :
       \E old \in OldBrushes :
       \E f \in 0..Len(SubmitAsync(Ctx, draw, pen, brush, width, 0, atSend,
                                   old).log) :
        LET R == SubmitAsync(Ctx, draw, pen, brush, width, f, atSend, old)
        IN  /\ clear_brush' = R.cb
            /\ pens' = R.pens
            /\ brushes' = R.brushes
            /\ penMade' = R.pm
            /\ brushMade' = R.bm
            /\ madeHere' = R.mh
            /\ last' = [op |-> "submit_async", res |-> Result(R), n |-> f,
                        arg |-> draw]
            /\ log' = R.log
    /\ UNCHANGED <<styleVars, task_queue, issued, stockGot, stockTotal,
                   phase, epoch, scope, geom>>

NextAsync ==
    \/ SetStroke
    \/ SetFill
    \/ SetLineWidth
    \/ Draw
    \/ FillShape
    \/ Flush
    \/ SubmitAsyncStep

\* one attachment whose submissions run in either mode
SpecAsync == InitAsync /\ [][NextAsync]_vars
\* ------------------------------------------------- batches of two segments
\* a caller drawing every kind of shape in one color at the default width,
\* with room in the queue for a batch of two lines
GeometryScope == [colors |-> {Red}, widths |-> {0},
                  ops |-> DrawOps \cup FillOps, cap |-> MaxIssued + 1]

InitGeometry == New /\ scope = GeometryScope

SpecGeometry == InitGeometry /\ [][NextSurface]_vars
\* ---------------------------------------------------- arcs by coordinates
\* Draw and FillShape leave the coordinates of a shape out; DrawArc and
\* FillArc are draw_arc and fill_arc with them.
\* a caller drawing and filling single arcs, with no style set
ArcScope == [colors |-> {Red}, widths |-> {0},
             ops |-> {"draw_arc", "fill_arc"}, cap |-> MaxIssued - 2]

InitArc == New /\ scope = ArcScope

\* what the call left in geom: the dc.arc arguments if dc.arc was called
ArcSent(R, op, a, arc) ==
    IF \E i \in DOMAIN R.log : R.log[i].call = "arc"
    THEN [op |-> op, args |-> a, arc |-> arc, native |-> CalcPosns(arc)]
    ELSE NoArc

\* draw_arc(xcenter, ycenter, xradius, yradius, start_angle, sweep_angle)
DrawArc ==
    /\ phase = "surface"
    /\ issued + 1 <= scope.cap
    /\ \E a \in ArcArgs :
       \E f \in 0..Len(DrawCall(Ctx, Stroke, "arc", 1, pen, brush, width,
                                0).log) :
        LET R == DrawCall(Ctx, Stroke, "arc", 1, pen, brush, width, f)
        IN  /\ Commit(R, "draw_arc", 1)
            /\ geom' = ArcSent(R, "draw_arc", a, DrawArcForwards(a))
    /\ UNCHANGED <<styleVars, phase, epoch, scope>>

\* fill_arc(xcenter, ycenter, xradius, yradius, start_angle, sweep_angle)
FillArc ==
    /\ phase = "surface"
    /\ issued + 1 <= scope.cap
    /\ \E a \in ArcArgs :
       \E f \in 0..Len(DrawCall(Ctx, Fill, "arc", 1, pen, brush, width,
                                0).log) :
        LET R == DrawCall(Ctx, Fill, "arc", 1, pen, brush, width, f)
        IN  /\ Commit(R, "fill_arc", 1)
            /\ geom' = ArcSent(R, "fill_arc", a, FillArcForwards(a))
    /\ UNCHANGED <<styleVars, phase, epoch, scope>>

NextArc ==
    \/ DrawArc
    \/ FillArc
    \/ Flush

\* one attachment on which single arcs are drawn and filled
SpecArc == InitArc /\ [][NextArc]_vars
\* ------------------------------------------- detaching at a set line width
\* a caller drawing lines and filling rectangles in one color at width 2,
\* detaching and reattaching the surface
DetachScope == [colors |-> {Red}, widths |-> {2},
                ops |-> {"draw_line", "fill_rectangle"}, cap |-> MaxIssued]

InitDetach == New /\ scope = DetachScope

\* the whole life cycle, lines and rectangles in one color at two widths
SpecDetach == InitDetach /\ [][Next]_vars
\* ----------------------------------------------------------------- claims
\* reading the call log
CallNames(l) == [i \in DOMAIN l |-> l[i].call]
Entries(l, name) == SelectSeq(l, LAMBDA e : e.call = name)
Objs(l) == [i \in DOMAIN l |-> l[i].obj]
TaskIds(l) == [i \in DOMAIN l |-> l[i].task]
Selected(l) == Objs(Entries(l, "select_object"))
GeometryCalls == {"move_to", "line_to", "rectangle", "arc", "ellipse",
                  "polygon"}
ResourceCalls == {"get_stock_object", "create_pen", "create_solid_brush",
                  "select_object"}
IsPrefix(a, b) == Len(a) <= Len(b) /\ a = SubSeq(b, 1, Len(a))

\* C1: over any sequence of calls on one surface, the backend creates a pen
\* at most once per (color, width) key and a solid brush at most once per
\* color; the cache holds, and every later resolution selects, the handle of
\* that first creation.
C1_CreatedOncePerKey ==
    /\ \A k \in PenKeys :
        /\ penMade[k] <= 1
        /\ pens[k] # NoHandle => pens[k] = PenHandle(k[1], k[2], 1)
    /\ \A c \in Colors :
        /\ brushMade[c] <= 1
        /\ brushes[c] # NoHandle => brushes[c] = BrushHandle(c, 1)
    /\ \A i \in DOMAIN log :
        log[i].obj.kind \in {"pen", "brush"} => log[i].obj.gen = 1

\* C1 witness: a draw or fill that found its pen in the cache: it selected the
\* pen created by an earlier call and made no create_pen call
C1_Witness ==
    /\ last.op \in DrawOps \cup FillOps
    /\ last.res = Ok
    /\ Entries(log, "create_pen") = <<>>
    /\ \E i \in DOMAIN log :
        /\ log[i].call = "select_object"
        /\ log[i].obj.kind = "pen"
        /\ penMade[<<log[i].obj.color, log[i].obj.width>>] = 1

Increasing(q) == \A i, j \in DOMAIN q : i < j => q[i] < q[j]
Waited(l) == TaskIds(Entries(l, "wait"))
Dropped(l) == TaskIds(Entries(l, "drop"))

\* C2: the queue holds the pending tasks in the order their native calls were
\* issued, and a flush waits on them in exactly that order: the tasks it
\* waited on are the front of the queue it found, front first, and all of the
\* queue when no wait failed.
C2_FlushWaitsInQueueOrder ==
    [][/\ Increasing(task_queue')
       /\ last'.op = "flush" =>
            /\ IsPrefix(Waited(log'), task_queue)
            /\ last'.res = Ok => Waited(log') = task_queue]_vars

\* C2 witness: a flush that waited on three queued tasks
C2_Witness ==
    /\ last.op = "flush"
    /\ last.res = Ok
    /\ Waited(log) = <<1, 2, 3>>

\* C3: a flush stops at the first wait that fails: the tasks queued behind the
\* failing one are removed without being waited on, the queue is left empty
\* and the failure is what flush returns.
C3_FlushStopsAtFirstFailure ==
    [][last'.op = "flush" /\ (\E i \in DOMAIN log' : ~log'[i].ok) =>
        LET m == Len(Waited(log'))
        IN  /\ last'.res = BackendErr
            /\ \A i \in DOMAIN log' : ~log'[i].ok <=> i = m
            /\ log'[m].call = "wait"
            /\ Waited(log') = SubSeq(task_queue, 1, m)
            /\ Dropped(log') = SubSeq(task_queue, m + 1, Len(task_queue))
            /\ log' = Entries(log', "wait") \o Entries(log', "drop")
            /\ task_queue' = <<>>]_vars

\* C3 witness: draw_line, draw_rectangle, flush with the 2nd wait failing: the
\* 3rd task is dropped, not waited on
C3_Witness ==
    /\ last.op = "flush"
    /\ last.res = BackendErr
    /\ Waited(log) = <<1, 2>>
    /\ Dropped(log) = <<3>>
    /\ task_queue = <<>>

\* C4: a fill_* call made while no fill color is set resolves no pen and no
\* brush, selects nothing, sends no native draw call, leaves the command
\* queue as it was and returns success.
C4_FillWithoutColorDoesNothing ==
    [][last'.op \in FillOps /\ brush = None =>
        /\ log' = <<>>
        /\ task_queue' = task_queue
        /\ last'.res = Ok]_vars

\* C5: free sends a delete for every cached pen and every cached brush, also
\* after a deletion has failed, and returns an error iff some deletion failed.
C5_FreeDeletesEverything ==
    [][last'.op = "free" =>
        /\ \A k \in PenKeys : pens[k] # NoHandle =>
            \E i \in DOMAIN log' :
                log'[i].call = "delete_gdi" /\ log'[i].obj = pens[k]
        /\ \A c \in Colors : brushes[c] # NoHandle =>
            \E i \in DOMAIN log' :
                log'[i].call = "delete_gdi" /\ log'[i].obj = brushes[c]
        /\ last'.res = Ok <=> \A i \in DOMAIN log' : log'[i].ok]_vars

\* C6: set_fill with a gradient rule, on this surface whose features report
\* no gradient support, returns NotSupported, makes no backend call and
\* leaves the fill color, the stroke color, the line width, the caches and
\* the queue as they were.
C6_GradientFillRejected ==
    [][last'.op = "set_fill" /\ last'.arg = "Gradient" =>
        /\ ~FEATURES.gradients
        /\ last'.res = NotSupported
        /\ log' = <<>>
        /\ UNCHANGED <<brush, pen, width, pens, brushes, clear_brush,
                       task_queue, issued>>]_vars

\* C6 witness: a gradient rejected while a fill color is active
C6_Witness ==
    /\ last.op = "set_fill"
    /\ last.arg = "Gradient"
    /\ last.res = NotSupported
    /\ brush = Red

\* the calls of l made before its first geometry call
BeforeGeometry(l) ==
    LET g == {i \in DOMAIN l : l[i].call \in GeometryCalls}
    IN  IF g = {} THEN l
        ELSE SubSeq(l, 1, (CHOOSE i \in g : \A j \in g : i <= j) - 1)
\* the resource calls of l all come before its geometry calls
ResourcesFirst(l) ==
    \A i, j \in DOMAIN l :
        l[i].call \in ResourceCalls /\ l[j].call \in GeometryCalls => i < j
\* the selections a stroke submission makes when nothing fails
StrokeSelections ==
    <<NullBrush>> \o (IF pen = None THEN <<>> ELSE <<pens[<<pen, width>>]>>)
\* a creation call is directly followed by the selection of what it created
CreatedThenSelected(l) ==
    \A i \in DOMAIN l :
        l[i].call \in {"create_pen", "create_solid_brush"} /\ l[i].ok =>
            /\ i < Len(l)
            /\ l[i + 1].call = "select_object"
            /\ l[i + 1].obj = l[i].obj

\* C7: every draw_* call selects, before any geometry call, the clear brush
\* and then, when a stroke color is set, the pen of (stroke color, line
\* width), created on a miss; with no stroke color it creates and selects no
\* pen.  A successful draw_line sends move_to then line_to and queues both.
C7_StrokeSubmission ==
    last.op \in DrawOps =>
        /\ ResourcesFirst(log)
        /\ IsPrefix(Selected(log), StrokeSelections)
        /\ last.res = Ok => Selected(log) = StrokeSelections
        /\ \A i \in DOMAIN log :
            /\ log[i].call # "create_solid_brush"
            /\ log[i].call = "create_pen" =>
                pen # None /\ log[i].obj = PenHandle(pen, width, 1)
            /\ log[i].call = "get_stock_object" => i = 1
        /\ CreatedThenSelected(log)
        /\ Len(Entries(log, "create_pen")) <= 1
        /\ last.op = "draw_line" /\ last.res = Ok =>
            LET n == Len(log)
            IN  /\ n >= 3
                /\ log[n - 1].call = "move_to" /\ log[n].call = "line_to"
                /\ Len(BeforeGeometry(log)) = n - 2
                /\ Len(task_queue) >= 2
                /\ SubSeq(task_queue, Len(task_queue) - 1, Len(task_queue))
                     = <<log[n - 1].task, log[n].task>>

\* C7 witness: stroke Red, width 2, draw_line on a fresh surface: the null
\* brush obtained and selected, the pen of (Red, 2) created and selected, then
\* move_to and line_to queued
C7_Witness ==
    /\ last.op = "draw_line"
    /\ last.res = Ok
    /\ pen = Red /\ width = 2
    /\ CallNames(log) = <<"get_stock_object", "select_object", "create_pen",
                          "select_object", "move_to", "line_to">>
    /\ Selected(log) = <<NullBrush, PenHandle(Red, 2, 1)>>
    /\ task_queue = <<1, 2>>

\* the selections a fill submission makes when nothing fails
FillSelections ==
    IF brush = None THEN <<>>
    ELSE <<pens[<<brush, width>>], brushes[brush]>>

\* C8: every fill_* call made while a fill color f is set selects, before any
\* geometry call, the pen of (f, line width) and then the brush of f, each
\* created and cached on a miss; it neither obtains nor selects the clear
\* brush.
C8_FillSubmission ==
    last.op \in FillOps /\ brush # None =>
        /\ ResourcesFirst(log)
        /\ IsPrefix(Selected(log), FillSelections)
        /\ last.res = Ok =>
            /\ Selected(log) = FillSelections
            /\ pens[<<brush, width>>] = PenHandle(brush, width, 1)
            /\ brushes[brush] = BrushHandle(brush, 1)
        /\ \A i \in DOMAIN log :
            /\ log[i].call # "get_stock_object"
            /\ log[i].obj # NullBrush
            /\ log[i].call = "create_pen" =>
                log[i].obj = PenHandle(brush, width, 1)
            /\ log[i].call = "create_solid_brush" =>
                log[i].obj = BrushHandle(brush, 1)
            /\ log[i].call \in {"create_pen", "create_solid_brush"}
               /\ log[i].ok =>
                \/ pens[<<brush, width>>] = log[i].obj
                \/ brushes[brush] = log[i].obj
        /\ CreatedThenSelected(log)

\* C8 witness: a fill at width 2 that missed both caches: pen created and
\* selected, then brush created and selected, then the geometry
C8_Witness ==
    /\ last.op \in FillOps
    /\ last.res = Ok
    /\ brush = Red /\ width = 2
    /\ CallNames(BeforeGeometry(log)) =
         <<"create_pen", "select_object", "create_solid_brush",
           "select_object">>
    /\ Len(log) > 4

HasCall(l, name, h) ==
    \E i \in DOMAIN l : l[i].call = name /\ l[i].obj = h
Creations(l) == Entries(l, "create_pen") \o Entries(l, "create_solid_brush")

\* C9: into_residual and from_residual leave every cached pen and brush
\* handle in place, and a draw or fill made after the reattachment, before
\* anything new is created, sends no creation call for the cached resources
\* of its style but still selects them.
C9_ResidualKeepsCaches ==
    [][/\ last'.op \in {"into_residual", "from_residual"} =>
            pens' = pens /\ brushes' = brushes
       /\ epoch >= 1 /\ ~madeHere /\ last'.op \in DrawOps /\ pen # None
          /\ pens[<<pen, width>>] # NoHandle =>
            /\ Creations(log') = <<>>
            /\ last'.res = Ok =>
                 HasCall(log', "select_object", pens[<<pen, width>>])
       /\ epoch >= 1 /\ ~madeHere /\ last'.op \in FillOps /\ brush # None
          /\ pens[<<brush, width>>] # NoHandle /\ brushes[brush] # NoHandle =>
            /\ Creations(log') = <<>>
            /\ last'.res = Ok =>
                 /\ HasCall(log', "select_object", pens[<<brush, width>>])
                 /\ HasCall(log', "select_object", brushes[brush])]_vars

\* C9 witness: the surface was detached and reattached, nothing has been
\* created since, and a fill selected the pen and the brush it found cached
C9_Witness ==
    /\ epoch >= 1
    /\ ~madeHere
    /\ last.op \in FillOps
    /\ last.res = Ok
    /\ Selected(log) = <<PenHandle(Red, 0, 1), BrushHandle(Red, 1)>>

\* C10 as claimed: get_stock_object succeeds at most once over the life of
\* the residual state, detach / reattach cycles included.
C10_ClearBrushOncePerLifetime == stockTotal <= 1

\* C10: within one attachment (from new or from_residual to into_residual)
\* get_stock_object succeeds at most once; the handle stays cached from then
\* on and every later stroke submission of the attachment selects it without
\* another get_stock_object call.  into_residual empties the cache.
C10_ClearBrushOncePerAttachment ==
    /\ stockGot <= 1
    /\ (stockGot = 1) <=> (clear_brush = NullBrush)
    /\ clear_brush \in {NoHandle, NullBrush}
    /\ phase # "surface" => clear_brush = NoHandle
    /\ last.op \in DrawOps =>
        /\ Len(Entries(log, "get_stock_object")) <= 1
        /\ Selected(log) # <<>> =>
             clear_brush = NullBrush /\ Selected(log)[1] = NullBrush

\* C10 witness: after a reattachment the null brush was obtained a second
\* time, and a later draw selected the cached handle without asking again
C10_Witness ==
    /\ epoch >= 1
    /\ stockTotal = 2
    /\ last.op \in DrawOps
    /\ log # <<>>
    /\ log[1].call = "select_object"
    /\ log[1].obj = NullBrush
    /\ log[1].ok

\* C11: the cooperative submission and the blocking submission are observably
\* identical: on every style state, cache state and draw mode, and for every
\* failing call, submit_async issues the backend calls submit issues, returns
\* the result submit returns, and leaves the pen cache, the brush cache and
\* the clear-brush cache as submit leaves them.
C11_AsyncSubmitMatchesBlocking ==
    [][last'.op = "submit_async" =>
        LET B == Submit(Ctx, last'.arg, pen, brush, width, last'.n)
        IN  /\ log' = B.log
            /\ last'.res = Result(B)
            /\ pens' = B.pens
            /\ brushes' = B.brushes
            /\ clear_brush' = B.cb]_vars

\* C12: set_stroke, set_fill and set_line_width change only their own style
\* field: they make no backend call, leave the pen cache, the brush cache,
\* the clear-brush cache and the command queue as they were, and leave the
\* other two style fields as they were.
C12_SettersChangeOnlyTheirField ==
    [][last'.op \in {"set_stroke", "set_fill", "set_line_width"} =>
        /\ log' = <<>>
        /\ <<pens, brushes, clear_brush, task_queue>>'
             = <<pens, brushes, clear_brush, task_queue>>
        /\ backendVars' = backendVars
        /\ last'.op = "set_stroke" => <<brush, width>>' = <<brush, width>>
        /\ last'.op = "set_fill" => <<pen, width>>' = <<pen, width>>
        /\ last'.op = "set_line_width" => <<pen, brush>>' = <<pen, brush>>]_vars

\* C12 witness: set_line_width has changed the width while a pen made for the
\* old width is cached, the clear brush is cached and a task is queued
C12_Witness ==
    /\ last.op = "set_line_width"
    /\ width = 2
    /\ pen = Red
    /\ pens[<<Red, 0>>] # NoHandle
    /\ pens[<<Red, 2>>] = NoHandle
    /\ clear_brush = NullBrush
    /\ task_queue # <<>>

\* a resource call of the submission that failed, at position i of log l
FailedSubmission(l, i) == l[i].call \in ResourceCalls /\ ~l[i].ok

\* C13: if a step of the submission of a draw_* or fill_* call fails (the
\* clear brush is not obtained, a pen or brush creation fails, a select
\* fails), the call returns that error at once: the failed call is the last
\* backend call it makes, no geometry call is sent, and the command queue is
\* as it was.
C13_SubmissionFailureAborts ==
    [][(/\ last'.op \in DrawOps \cup FillOps
        /\ \E i \in DOMAIN log' : FailedSubmission(log', i)) =>
        /\ last'.res = BackendErr
        /\ FailedSubmission(log', Len(log'))
        /\ \A i \in DOMAIN log' : log'[i].call \notin GeometryCalls
        /\ task_queue' = task_queue
        /\ issued' = issued]_vars

\* C13 witness: a fill whose pen was created and selected and whose brush
\* creation failed, with tasks of earlier calls still queued
C13_Witness ==
    /\ last.op \in FillOps
    /\ last.res = BackendErr
    /\ CallNames(log) = <<"create_pen", "select_object", "create_solid_brush">>
    /\ ~log[3].ok
    /\ task_queue # <<>>

\* the cache entry a handle belongs in
CachedAs(h, ps, bs, cb) ==
    CASE h.kind = "pen" -> ps[<<h.color, h.width>>]
      [] h.kind = "brush" -> bs[h.color]
      [] OTHER -> cb

\* C14: a resource cached before a later failure in the same call stays
\* cached: whatever a draw or fill call created or acquired (pen, brush, clear
\* brush) is in its cache when the call returns, also when the call returns
\* an error; and a call issues a creation only for a key that was not cached
\* when it started, so the next attempt creates nothing a second time.
C14_PartialProgressKept ==
    [][last'.op \in DrawOps \cup FillOps =>
        \A i \in DOMAIN log' :
            log'[i].call \in {"create_pen", "create_solid_brush",
                              "get_stock_object"} =>
                /\ CachedAs(log'[i].obj, pens, brushes, clear_brush) = NoHandle
                /\ log'[i].ok =>
                     CachedAs(log'[i].obj, pens', brushes', clear_brush')
                       = log'[i].obj]_vars

\* C14 witness: a fill that created its pen and its brush and then failed on
\* the select of the brush; both are cached
C14_Witness ==
    /\ last.op \in FillOps
    /\ last.res = BackendErr
    /\ CallNames(log) = <<"create_pen", "select_object",
                          "create_solid_brush", "select_object">>
    /\ ~log[4].ok
    /\ pens[<<Red, width>>] = log[1].obj
    /\ brushes[Red] = log[3].obj

\* the geometry calls in a log, and the native calls a geometry method on n
\* elements is to send: move_to, line_to per segment; one call per other shape
GeometryEntries(l) == SelectSeq(l, LAMBDA e : e.call \in GeometryCalls)
ExpectedCalls(shape, n) ==
    CASE shape = "line" -> <<"move_to", "line_to">>
      [] shape = "lines" ->
            [i \in 1..(2 * n) |-> IF i % 2 = 1 THEN "move_to" ELSE "line_to"]
      [] shape = "rectangles" -> [i \in 1..n |-> "rectangle"]
      [] shape = "arcs" -> [i \in 1..n |-> "arc"]
      [] shape = "ellipses" -> [i \in 1..n |-> "ellipse"]
      [] OTHER -> <<shape>>

\* C15: a successful draw or fill call sends the native calls of its shape
\* (2 for a line, 1 for a rectangle, arc, ellipse or polygon, 2n for a batch
\* of n lines, n for a batch of n rectangles, arcs or ellipses) and appends
\* their tasks to the end of the command queue in the order the calls were
\* sent; no draw or fill call, successful or not, removes or reorders an
\* entry already in the queue.
C15_GeometryAppendsInIssueOrder ==
    [][last'.op \in DrawOps \cup FillOps =>
        LET g == GeometryEntries(log')
        IN  /\ IsPrefix(task_queue, task_queue')
            /\ last'.res = Ok =>
                /\ CallNames(g) = ExpectedCalls(Shape(last'.op), last'.n)
                /\ TaskIds(g) = [i \in DOMAIN g |-> issued + i]
                /\ task_queue' = task_queue \o TaskIds(g)]_vars

\* C15 witness: a batch of two lines has queued its four tasks: move_to,
\* line_to of the first segment, then move_to, line_to of the second
C15_Witness ==
    /\ last.op = "draw_lines"
    /\ last.n = 2
    /\ last.res = Ok
    /\ CallNames(GeometryEntries(log))
         = <<"move_to", "line_to", "move_to", "line_to">>
    /\ task_queue = TaskIds(GeometryEntries(log))

\* C16: flush, whether it succeeds or fails, leaves the pen cache, the brush
\* cache, the clear-brush cache and the style state as they were and makes no
\* create, select or delete call (it only waits on, or drops, queued tasks);
\* on an empty queue it waits on nothing and returns success.
C16_FlushTouchesOnlyTheQueue ==
    [][last'.op = "flush" =>
        /\ <<pens, brushes, clear_brush>>' = <<pens, brushes, clear_brush>>
        /\ styleVars' = styleVars
        /\ \A i \in DOMAIN log' : log'[i].call \in {"wait", "drop"}
        /\ task_queue = <<>> => log' = <<>> /\ last'.res = Ok]_vars

\* C16 witness: a flush has failed on a surface that holds a pen, a brush, the
\* clear brush and a style
C16_Witness ==
    /\ last.op = "flush"
    /\ last.res = BackendErr
    /\ pens[<<Red, 2>>] # NoHandle
    /\ brushes[Red] # NoHandle
    /\ clear_brush = NullBrush
    /\ pen = Red /\ brush = Red /\ width = 2

\* C17: no operation before free evicts or replaces a cache entry: over
\* style, draw, fill, flush, into_residual and from_residual steps every
\* cached pen key and brush key stays cached with the handle it had, and no
\* such step makes a backend delete call.
C17_NoEvictionBeforeFree ==
    [][last'.op # "free" =>
        /\ \A k \in PenKeys : pens[k] # NoHandle => pens'[k] = pens[k]
        /\ \A c \in Colors : brushes[c] # NoHandle => brushes'[c] = brushes[c]
        /\ \A i \in DOMAIN log' : log'[i].call # "delete_gdi"]_vars

\* C17 witness: after a detach and reattach a draw has created the pen of a
\* second color, and the pen of the first color is still cached
C17_Witness ==
    /\ epoch = 1
    /\ last.op \in DrawOps
    /\ \E c \in Colors :
        /\ HasCall(log, "create_pen", PenHandle(c, 0, 1))
        /\ \E d \in Colors \ {c} : pens[<<d, 0>>] = PenHandle(d, 0, 1)

\* C18: fill_arc forwards to the native arc translation the center and the x
\* and y radii that draw_arc forwards for the same arguments, so that the
\* dc.arc call fill_arc sends has the geometry of the one draw_arc sends.
C18_FillArcForwardsItsRadii ==
    geom.op = "fill_arc" =>
        /\ geom.arc.center = <<geom.args.xcenter, geom.args.ycenter>>
        /\ geom.arc.radii = <<geom.args.xradius, geom.args.yradius>>
        /\ geom.native = CalcPosns(DrawArcForwards(geom.args))

\* the point of the ellipse of an arc at an angle, as calc_posns rounds it
ArcPoint(arc, q) ==
    <<CeilAsI32(arc.center[1] + Cos(q) * arc.radii[1]),
      CeilAsI32(arc.center[2] + Sin(q) * arc.radii[2])>>

\* C19: in the arguments of the native arc call the bounding box corners are
\* center minus radii and center plus radii, the start point is the point at
\* the start angle, and the end point is the point at the angle start + sweep.
C19_ArcEndPointAtStartPlusSweep ==
    geom.op # "none" =>
        LET arc == geom.arc
            n   == geom.native
        IN  /\ <<n[1], n[2]>> = <<AsI32(arc.center[1] - arc.radii[1]),
                                  AsI32(arc.center[2] - arc.radii[2])>>
            /\ <<n[3], n[4]>> = <<AsI32(arc.center[1] + arc.radii[1]),
                                  AsI32(arc.center[2] + arc.radii[2])>>
            /\ <<n[5], n[6]>> = ArcPoint(arc, arc.start_angle)
            /\ <<n[7], n[8]>> = ArcPoint(arc, arc.start_angle + arc.sweep_angle)

\* C20: when flush returns, with success or with an error, the command queue
\* is empty; its waits are on distinct tasks of the queue it found, so there
\* are at most as many waits as the queue held and no task is left to be
\* waited on again; a flush that directly follows a flush waits on nothing
\* and returns success.
C20_FlushLeavesQueueEmpty ==
    [][last'.op = "flush" =>
        LET ws == Waited(log')
        IN  /\ task_queue' = <<>>
            /\ Len(ws) <= Len(task_queue)
            /\ \A i \in DOMAIN ws : \E j \in DOMAIN task_queue :
                   ws[i] = task_queue[j]
            /\ \A i, j \in DOMAIN ws : i # j => ws[i] # ws[j]
            /\ last.op = "flush" => log' = <<>> /\ last'.res = Ok]_vars

\* C20 witness: a flush of three tasks whose first wait failed: one wait was
\* made, the other two tasks were dropped and the queue is empty
C20_Witness ==
    /\ last.op = "flush"
    /\ last.res = BackendErr
    /\ Waited(log) = <<1>>
    /\ Dropped(log) = <<2, 3>>
    /\ task_queue = <<>>
    /\ issued = 0

\* C21: into_residual unsets the stroke color and the fill color and empties
\* the clear-brush cache, and keeps the line width and the pending command
\* queue; from_residual changes none of them.  On the reattached surface,
\* while no set_stroke has been made a draw_* call creates and selects no
\* pen, and while no set_fill has been made a fill_* call resolves no
\* resource; both only append to the queue, and a flush waits from the front
\* of the queue, so the entries queued before the detach are waited on first.
C21_DetachResetsStyleKeepsQueue ==
    [][/\ last'.op = "into_residual" =>
            /\ pen' = None /\ brush' = None /\ clear_brush' = NoHandle
            /\ width' = width
            /\ task_queue' = task_queue
       /\ last'.op = "from_residual" =>
            <<pen, brush, clear_brush, width, task_queue>>'
              = <<pen, brush, clear_brush, width, task_queue>>
       /\ epoch >= 1 /\ pen = None /\ last'.op \in DrawOps =>
            /\ Entries(log', "create_pen") = <<>>
            /\ \A i \in DOMAIN log' : log'[i].obj.kind # "pen"
            /\ IsPrefix(task_queue, task_queue')
       /\ epoch >= 1 /\ brush = None /\ last'.op \in FillOps =>
            /\ \A i \in DOMAIN log' : log'[i].call \notin ResourceCalls
            /\ IsPrefix(task_queue, task_queue')
       /\ epoch >= 1 /\ last'.op = "flush" =>
            /\ IsPrefix(Waited(log'), task_queue)
            /\ last'.res = Ok => Waited(log') = task_queue]_vars

\* C21 witness: on the reattached surface, with the stroke color unset by the
\* detach, the width still 2 and the pen made for it still cached, a draw_line
\* fetched and selected the clear brush, selected no pen, and queued its two
\* tasks behind an older one
C21_Witness ==
    /\ epoch = 1
    /\ last.op = "draw_line"
    /\ last.res = Ok
    /\ pen = None
    /\ width = 2
    /\ pens[<<Red, 2>>] # NoHandle
    /\ CallNames(log) = <<"get_stock_object", "select_object", "move_to",
                          "line_to">>
    /\ task_queue = <<1, 2, 3>>

\* C22: free waits on none of the pending command-queue entries: the tasks
\* still queued when free is called are all discarded unwaited; and free
\* passes to the backend delete call only handles of the pen cache and the
\* brush cache, never the clear brush.
C22_FreeDiscardsQueueUnwaited ==
    [][last'.op = "free" =>
        /\ Waited(log') = <<>>
        /\ Dropped(log') = task_queue
        /\ task_queue' = <<>>
        /\ \A i \in DOMAIN log' : log'[i].call = "delete_gdi" =>
            /\ log'[i].obj # NullBrush
            /\ \/ \E k \in PenKeys : pens[k] = log'[i].obj
               \/ \E c \in Colors : brushes[c] = log'[i].obj]_vars

\* C22 witness: free was called with three tasks never flushed and, the clear
\* brush having been fetched earlier, a pen and a brush cached: it deleted
\* the pen and the brush and dropped the three tasks
C22_Witness ==
    /\ last.op = "free"
    /\ last.res = Ok
    /\ stockTotal >= 1
    /\ Dropped(log) = <<1, 2, 3>>
    /\ \E i, j \in DOMAIN log :
        /\ log[i].call = "delete_gdi" /\ log[i].obj.kind = "pen"
        /\ log[j].call = "delete_gdi" /\ log[j].obj.kind = "brush"
====
